---------------------------- MODULE Spec2Model ----------------------------
(***************************************************************************)
(* CM-block detection pipeline of cm-detector (src/src/main.rs).           *)
(*                                                                         *)
(* main() parses the silence list, then runs                               *)
(*   detect_blocks_range_based  -> merge_blocks_with_short_units           *)
(*   -> extend_block_boundaries_with_short_units                           *)
(*   -> filter_blocks_by_standard_units.                                   *)
(*                                                                         *)
(* Time is in integer milliseconds, as in the code.  Every f64 "seconds"   *)
(* value of the code is an integer number of milliseconds divided by       *)
(* 1000.0; it is represented here by that integer number of milliseconds   *)
(* (thousandths of a second).  All f64 comparisons of the code are against *)
(* constants that are multiples of 0.5 s, so they are exact on these       *)
(* values.  A field named duration_sec therefore holds seconds * 1000: the *)
(* integer ms stands for the f64 ms as f64 / 1000.0, whose rounding is     *)
(* DivThousandError(ms).                                                   *)
(* Sequences are 1-based: silence index k of the code is k + 1 here.       *)
(***************************************************************************)
EXTENDS Integers, Sequences, FiniteSets, TLC

\* ------------------------------------------------------------ constants
TOLERANCE_MS == 500
START_OFFSET_MIN_MS == 2000
START_OFFSET_MAX_MS == 8000
\* MIN_BLOCK_DURATION_SEC = 60.0, in thousandths of a second
MIN_BLOCK_DURATION_SEC == 60000
\* MAX_BLOCK_DURATION_SEC = 360.0, in thousandths of a second
MAX_BLOCK_DURATION_SEC == 360000
MIN_STANDARD_UNITS == 2
MAX_STANDARD_UNITS == 5
\* STANDARD_UNIT_SEC = 15.0, in thousandths of a second
STANDARD_UNIT_SEC == 15000
\* SHORT_UNITS = [5.0, 10.0], in thousandths of a second
SHORT_UNITS == <<5000, 10000>>
\* Option::None of coarse_unit_count / expected_interval_ms (Some(n) has n >= 1)
NoUnits == 0

\* --------------------------------------------------------------- bounds
\* longest input of each input family
MaxLong == 7
MaxGrid == 6
MaxPoint == 3
MaxShort == 4
MaxInsert == 4
MaxMerge == 6
MaxOffset == 3

\* -------------------------------------------------------------- helpers
Abs(x) == IF x >= 0 THEN x ELSE -x

Max2(a, b) == IF a >= b THEN a ELSE b

Min2(a, b) == IF a <= b THEN a ELSE b

\* i64 division by 2, truncating toward zero
Half(x) == IF x >= 0 THEN x \div 2 ELSE -((-x) \div 2)

\* f64::round of num/den (den > 0): nearest integer, halves away from zero
RoundDiv(num, den) ==
    IF num >= 0 THEN (2 * num + den) \div (2 * den)
    ELSE -((2 * (-num) + den) \div (2 * den))

\* floor(log2(n)) for n >= 1
RECURSIVE FloorLog2(_)
FloorLog2(n) == IF n < 2 THEN 0 ELSE 1 + FloorLog2(n \div 2)

\* 2^s modulo m
RECURSIVE Pow2Mod(_, _)
Pow2Mod(s, m) == IF s = 0 THEN 1 ELSE (2 * Pow2Mod(s - 1, m)) % m

\* the binary exponent of the f64 quotient ms as f64 / 1000.0, for ms >= 1:
\* floor(log2(ms / 1000))
QuotientExponent(ms) ==
    LET kd == FloorLog2(ms)
    IN IF ms * 512 < 1000 * 2^kd THEN kd - 10 ELSE kd - 9

\* The f64 division ms as f64 / 1000.0 (ms >= 1) rounds the quotient to 53
\* significant bits, ties to even: with s = 52 - QuotientExponent(ms) the
\* result is M * 2^-s, M the integer nearest to ms * 2^s / 1000.  This is its
\* rounding error 1000 * M - ms * 2^s, found from ms * 2^s modulo 2000.
DivThousandError(ms) ==
    LET s == 52 - QuotientExponent(ms)
        r2 == ((ms % 2000) * Pow2Mod(s, 2000)) % 2000
        rho == r2 % 1000
    IN IF rho < 500 THEN -rho
       ELSE IF rho > 500 THEN 1000 - rho
       ELSE IF r2 = 500 THEN -500 ELSE 500

\* Range::new
Range(start, end) == [start |-> start, end |-> end]

NoRange == <<>>

IntersectStrict(self, other) ==
    LET start == Max2(self.start, other.start)
        end == Min2(self.end, other.end)
    IN IF start < end THEN <<Range(start, end)>> ELSE NoRange

\* Range::intersect: the overlap as <<range>>, or <<>> for None
Intersect(self, other) ==
    LET start == Max2(self.start, other.start)
        end == Min2(self.end, other.end)
    IN IF start <= end THEN <<Range(start, end)>> ELSE NoRange

\* Range::offset
Offset(self, offset_ms) == Range(self.start + offset_ms, self.end + offset_ms)

\* (start_ms + end_ms) / 2 of a silence
Center(s) == Half(s.start_ms + s.end_ms)

\* (range.start + range.end) / 2
RangeCenter(r) == Half(r.start + r.end)

SilenceRange(s) == Range(s.start_ms, s.end_ms)

CoarseUnitCountHalfDown(gap_ms) ==
    LET unit_count == Max2((2 * gap_ms + STANDARD_UNIT_SEC - 1) \div (2 * STANDARD_UNIT_SEC), 1)
    IN IF unit_count > MAX_STANDARD_UNITS THEN NoUnits ELSE unit_count

CoarseUnitCountUpTo6(gap_ms) ==
    LET unit_count == Max2(RoundDiv(gap_ms, STANDARD_UNIT_SEC), 1)
    IN IF unit_count > MAX_STANDARD_UNITS + 1 THEN NoUnits ELSE unit_count

DetectStartOffsetMsExclusive(silence_segments) ==
    LET hits == {k \in 1..Len(silence_segments) :
                    /\ Center(silence_segments[k]) > START_OFFSET_MIN_MS
                    /\ Center(silence_segments[k]) < START_OFFSET_MAX_MS}
    IN IF hits = {} THEN <<>>
       ELSE <<Center(silence_segments[CHOOSE k \in hits : \A j \in hits : k <= j])>>

\* detect_start_offset_ms: <<center_ms>> of the first silence whose center is
\* in the window, <<>> for None
DetectStartOffsetMs(silence_segments) ==
    LET hits == {k \in 1..Len(silence_segments) :
                    /\ Center(silence_segments[k]) >= START_OFFSET_MIN_MS
                    /\ Center(silence_segments[k]) <= START_OFFSET_MAX_MS}
    IN IF hits = {} THEN <<>>
       ELSE <<Center(silence_segments[CHOOSE k \in hits : \A j \in hits : k <= j])>>

\* coarse_unit_count: round(gap_sec / 15.0), at least 1, None above 5
CoarseUnitCount(gap_ms) ==
    LET unit_count == Max2(RoundDiv(gap_ms, STANDARD_UNIT_SEC), 1)
    IN IF unit_count > MAX_STANDARD_UNITS THEN NoUnits ELSE unit_count

\* expected_interval_ms: units * 15.0 * 1000.0 as i64, None (0) when the count is None
ExpectedIntervalMs(gap_ms) ==
    LET units == CoarseUnitCount(gap_ms)
    IN IF units = NoUnits THEN NoUnits ELSE units * STANDARD_UNIT_SEC

\* is_short_unit, on a duration in thousandths of a second
IsShortUnit(duration_sec) ==
    \E k \in 1..Len(SHORT_UNITS) : Abs(duration_sec - SHORT_UNITS[k]) <= TOLERANCE_MS

\* CmCandidate
CmCandidate(start_ms, end_ms, duration_sec, is_standard) ==
    [start_ms |-> start_ms, end_ms |-> end_ms,
     duration_sec |-> duration_sec, is_standard |-> is_standard]

\* CmBlock
CmBlock(start_ms, end_ms, duration_sec, segments) ==
    [start_ms |-> start_ms, end_ms |-> end_ms,
     duration_sec |-> duration_sec, segments |-> segments]

\* ---------------------------------------------------------- the chainer
RECURSIVE ChainCandidatesSwapped(_, _)
ChainCandidatesSwapped(chain_segments, silence_segments) ==
    IF chain_segments = <<>> THEN <<>>
    ELSE LET hop == Head(chain_segments)
             seg_start == silence_segments[hop.from].start_ms
             seg_end == silence_segments[hop.to].end_ms
         IN <<CmCandidate(seg_start, seg_end, seg_end - seg_start, hop.is_standard)>>
            \o ChainCandidatesSwapped(Tail(chain_segments), silence_segments)

\* the segment list try_make_block_range_based builds from the hop list
RECURSIVE ChainCandidates(_, _)
ChainCandidates(chain_segments, silence_segments) ==
    IF chain_segments = <<>> THEN <<>>
    ELSE LET hop == Head(chain_segments)
             seg_start == silence_segments[hop.from].end_ms
             seg_end == silence_segments[hop.to].start_ms
         IN <<CmCandidate(seg_start, seg_end, seg_end - seg_start, hop.is_standard)>>
            \o ChainCandidates(Tail(chain_segments), silence_segments)

TryMakeBlockUnbounded(chain_segments, silence_segments) ==
    IF chain_segments = <<>> THEN <<>>
    ELSE LET first_silence == silence_segments[chain_segments[1].from]
             last_silence == silence_segments[chain_segments[Len(chain_segments)].to]
             start_ms == Center(first_silence)
             end_ms == Center(last_silence)
             total_duration_sec == end_ms - start_ms
         IN IF total_duration_sec > 0
            THEN <<CmBlock(start_ms, end_ms, total_duration_sec,
                           ChainCandidates(chain_segments, silence_segments))>>
            ELSE <<>>

TryMakeBlockFromEdges(chain_segments, silence_segments) ==
    IF chain_segments = <<>> THEN <<>>
    ELSE LET first_silence == silence_segments[chain_segments[1].from]
             last_silence == silence_segments[chain_segments[Len(chain_segments)].to]
             start_ms == first_silence.end_ms
             end_ms == last_silence.start_ms
             total_duration_sec == end_ms - start_ms
         IN IF total_duration_sec <= MAX_BLOCK_DURATION_SEC /\ total_duration_sec > 0
            THEN <<CmBlock(start_ms, end_ms, total_duration_sec,
                           ChainCandidates(chain_segments, silence_segments))>>
            ELSE <<>>

\* try_make_block_range_based: <<block>>, or <<>> for None
TryMakeBlockRangeBased(chain_segments, silence_segments) ==
    IF chain_segments = <<>> THEN <<>>
    ELSE LET first_silence == silence_segments[chain_segments[1].from]
             last_silence == silence_segments[chain_segments[Len(chain_segments)].to]
             start_ms == Center(first_silence)
             end_ms == Center(last_silence)
             total_duration_sec == end_ms - start_ms
         IN IF total_duration_sec <= MAX_BLOCK_DURATION_SEC /\ total_duration_sec > 0
            THEN <<CmBlock(start_ms, end_ms, total_duration_sec,
                           ChainCandidates(chain_segments, silence_segments))>>
            ELSE <<>>

\* the locals of one iteration of the chainer's loop
HopTest(prev_range, curr) ==
    LET curr_range == SilenceRange(curr)
        prev_center == RangeCenter(prev_range)
        curr_center == RangeCenter(curr_range)
        gap_ms == curr_center - prev_center
        gap_sec == gap_ms
        expected_ms == ExpectedIntervalMs(gap_ms)
        target_range == Range(Offset(prev_range, expected_ms - TOLERANCE_MS).start,
                              Offset(prev_range, expected_ms + TOLERANCE_MS).end)
        standard_match == IF expected_ms = NoUnits THEN NoRange
                          ELSE Intersect(curr_range, target_range)
        \* (gap_sec * 1000.0).round() as i64
        short_expected_ms == RoundDiv(gap_sec * 1000, 1000)
        short_target == Range(Offset(prev_range, short_expected_ms - TOLERANCE_MS).start,
                              Offset(prev_range, short_expected_ms + TOLERANCE_MS).end)
        short_unit_match == IF expected_ms # NoUnits /\ standard_match = NoRange
                               /\ IsShortUnit(gap_sec)
                            THEN Intersect(curr_range, short_target)
                            ELSE NoRange
    IN [prev_range |-> prev_range,
        curr_range |-> curr_range,
        gap_ms |-> gap_ms,
        units |-> CoarseUnitCount(gap_ms),
        expected_ms |-> expected_ms,
        standard_match |-> standard_match,
        short_unit_match |-> short_unit_match,
        is_standard |-> standard_match # NoRange,
        valid_range |-> IF standard_match # NoRange THEN standard_match
                        ELSE short_unit_match]

ChainStepNoTighten(st, silence_segments, i) ==
    LET curr == silence_segments[i]
        t == HopTest(st.prev_range, curr)
        closed == [blocks |-> st.blocks
                              \o TryMakeBlockRangeBased(st.chain_segments, silence_segments),
                   chain_segments |-> <<>>,
                   prev_range |-> SilenceRange(curr)]
    IN IF t.expected_ms = NoUnits
       THEN closed
       ELSE IF t.valid_range # NoRange
       THEN [blocks |-> st.blocks,
             chain_segments |-> Append(st.chain_segments,
                                       [from |-> i - 1, to |-> i,
                                        is_standard |-> t.is_standard]),
             prev_range |-> SilenceRange(curr)]
       ELSE closed

\* one iteration (index i) of the loop of detect_blocks_range_based, on the
\* loop's state st = [blocks, chain_segments, prev_range]
ChainStep(st, silence_segments, i) ==
    LET curr == silence_segments[i]
        t == HopTest(st.prev_range, curr)
        closed == [blocks |-> st.blocks
                              \o TryMakeBlockRangeBased(st.chain_segments, silence_segments),
                   chain_segments |-> <<>>,
                   prev_range |-> SilenceRange(curr)]
    IN IF t.expected_ms = NoUnits
       THEN closed
       ELSE IF t.valid_range # NoRange
       THEN [blocks |-> st.blocks,
             chain_segments |-> Append(st.chain_segments,
                                       [from |-> i - 1, to |-> i,
                                        is_standard |-> t.is_standard]),
             prev_range |-> t.valid_range[1]]
       ELSE closed

\* the loop's state before its first iteration
ChainStart(silence_segments) ==
    [blocks |-> <<>>, chain_segments |-> <<>>,
     prev_range |-> SilenceRange(silence_segments[1])]

\* the loop's state after iterations 2..i
RECURSIVE ChainLoop(_, _)
ChainLoop(silence_segments, i) ==
    IF i < 2 THEN ChainStart(silence_segments)
    ELSE ChainStep(ChainLoop(silence_segments, i - 1), silence_segments, i)

\* detect_blocks_range_based
DetectBlocksRangeBased(silence_segments) ==
    IF Len(silence_segments) < 2 THEN <<>>
    ELSE LET st == ChainLoop(silence_segments, Len(silence_segments))
         IN st.blocks \o TryMakeBlockRangeBased(st.chain_segments, silence_segments)

\* ----------------------------------------------------------- the merger
\* check_short_units_in_gap
CheckShortUnitsInGap(silence_segments, gap_start, gap_end) ==
    LET gap_silences == {k \in 1..Len(silence_segments) :
                            /\ silence_segments[k].start_ms >= gap_start
                            /\ silence_segments[k].end_ms <= gap_end}
        total_gap_sec == gap_end - gap_start
    IN IF gap_silences = {}
       THEN IsShortUnit(gap_end - gap_start)
       ELSE \E n \in 1..6 : \E u \in 1..Len(SHORT_UNITS) :
                Abs(total_gap_sec - SHORT_UNITS[u] * n) <= TOLERANCE_MS * n

FuseBlocksStandardGap(current_block, next_block) ==
    LET gap_start == current_block.end_ms
        gap_end == next_block.start_ms
        merged_segments == Append(current_block.segments,
                                  CmCandidate(gap_start, gap_end, gap_end - gap_start, TRUE))
                           \o next_block.segments
    IN CmBlock(current_block.start_ms, next_block.end_ms,
               next_block.end_ms - current_block.start_ms, merged_segments)

FuseBlocksKeepDuration(current_block, next_block) ==
    LET gap_start == current_block.end_ms
        gap_end == next_block.start_ms
        merged_segments == Append(current_block.segments,
                                  CmCandidate(gap_start, gap_end, gap_end - gap_start, FALSE))
                           \o next_block.segments
    IN CmBlock(current_block.start_ms, next_block.end_ms,
               current_block.duration_sec + next_block.duration_sec, merged_segments)

\* the block two blocks fuse into (the can_merge branch)
FuseBlocks(current_block, next_block) ==
    LET gap_start == current_block.end_ms
        gap_end == next_block.start_ms
        gap_duration == gap_end - gap_start
        merged_segments == Append(current_block.segments,
                                  CmCandidate(gap_start, gap_end, gap_duration, FALSE))
                           \o next_block.segments
        total_duration == next_block.end_ms - current_block.start_ms
    IN CmBlock(current_block.start_ms, next_block.end_ms, total_duration, merged_segments)

RECURSIVE MergeLoopStaleEnd(_, _, _, _, _)
MergeLoopStaleEnd(blocks, silence_segments, i, current_block, merged) ==
    IF i > Len(blocks) THEN Append(merged, current_block)
    ELSE LET next_block == blocks[i]
             can_merge == CheckShortUnitsInGap(silence_segments,
                                               current_block.start_ms
                                                   + blocks[i - 1].end_ms
                                                   - blocks[i - 1].start_ms,
                                               next_block.start_ms)
         IN IF can_merge
            THEN MergeLoopStaleEnd(blocks, silence_segments, i + 1,
                                  FuseBlocks(current_block, next_block), merged)
            ELSE MergeLoopStaleEnd(blocks, silence_segments, i + 1,
                                  next_block, Append(merged, current_block))

\* the loop of merge_blocks_with_short_units from index i on
RECURSIVE MergeLoop(_, _, _, _, _)
MergeLoop(blocks, silence_segments, i, current_block, merged) ==
    IF i > Len(blocks) THEN Append(merged, current_block)
    ELSE LET next_block == blocks[i]
             can_merge == CheckShortUnitsInGap(silence_segments,
                                               current_block.end_ms, next_block.start_ms)
         IN IF can_merge
            THEN MergeLoop(blocks, silence_segments, i + 1,
                           FuseBlocks(current_block, next_block), merged)
            ELSE MergeLoop(blocks, silence_segments, i + 1,
                           next_block, Append(merged, current_block))

\* merge_blocks_with_short_units
MergeBlocksWithShortUnits(blocks, silence_segments) ==
    IF Len(blocks) < 2 THEN blocks
    ELSE MergeLoop(blocks, silence_segments, 2, blocks[1], <<>>)

\* --------------------------------------------------------- the extender
\* iter().position(|s| center(s) == ms): the first such index, 0 for None
PositionOfCenter(silence_segments, ms) ==
    LET hits == {k \in 1..Len(silence_segments) : Center(silence_segments[k]) = ms}
    IN IF hits = {} THEN 0
       ELSE CHOOSE k \in hits : \A j \in hits : k <= j

RECURSIVE ExtendLeadingCenterGap(_, _, _)
ExtendLeadingCenterGap(silence_segments, current_idx, acc) ==
    IF current_idx > 1
    THEN LET prev_seg == silence_segments[current_idx - 1]
             curr_seg == silence_segments[current_idx]
             gap_ms == Center(curr_seg) - Center(prev_seg)
         IN IF IsShortUnit(gap_ms)
            THEN LET seg_start == Center(prev_seg)
                     seg_end == Center(curr_seg)
                 IN ExtendLeadingCenterGap(silence_segments, current_idx - 1,
                        [start_ms |-> seg_start,
                         segments |-> <<CmCandidate(seg_start, seg_end,
                                                    seg_end - seg_start, FALSE)>>
                                      \o acc.segments])
            ELSE acc
    ELSE acc

\* the backward loop: [start_ms, segments] reached from current_idx
RECURSIVE ExtendLeading(_, _, _)
ExtendLeading(silence_segments, current_idx, acc) ==
    IF current_idx > 1
    THEN LET prev_seg == silence_segments[current_idx - 1]
             curr_seg == silence_segments[current_idx]
             gap_ms == curr_seg.start_ms - prev_seg.end_ms
         IN IF IsShortUnit(gap_ms)
            THEN LET seg_start == Center(prev_seg)
                     seg_end == Center(curr_seg)
                 IN ExtendLeading(silence_segments, current_idx - 1,
                        [start_ms |-> seg_start,
                         segments |-> <<CmCandidate(seg_start, seg_end,
                                                    seg_end - seg_start, FALSE)>>
                                      \o acc.segments])
            ELSE acc
    ELSE acc

\* the forward loop: [end_ms, segments] reached from current_idx
RECURSIVE ExtendTrailing(_, _, _)
ExtendTrailing(silence_segments, current_idx, acc) ==
    IF current_idx + 1 <= Len(silence_segments)
    THEN LET curr_seg == silence_segments[current_idx]
             next_seg == silence_segments[current_idx + 1]
             gap_ms == next_seg.start_ms - curr_seg.end_ms
         IN IF IsShortUnit(gap_ms)
            THEN LET seg_start == Center(curr_seg)
                     seg_end == Center(next_seg)
                 IN ExtendTrailing(silence_segments, current_idx + 1,
                        [end_ms |-> seg_end,
                         segments |-> Append(acc.segments,
                                             CmCandidate(seg_start, seg_end,
                                                         seg_end - seg_start, FALSE))])
            ELSE acc
    ELSE acc

\* extend_single_block_boundaries
ExtendSingleBlockBoundaries(block, silence_segments) ==
    LET start_idx == PositionOfCenter(silence_segments, block.start_ms)
        end_idx == PositionOfCenter(silence_segments, block.end_ms)
        lead0 == [start_ms |-> block.start_ms, segments |-> <<>>]
        trail0 == [end_ms |-> block.end_ms, segments |-> <<>>]
        lead == IF start_idx = 0 THEN lead0
                ELSE ExtendLeading(silence_segments, start_idx, lead0)
        trail == IF end_idx = 0 THEN trail0
                 ELSE ExtendTrailing(silence_segments, end_idx, trail0)
    IN IF lead.segments = <<>> /\ trail.segments = <<>>
       THEN block
       ELSE CmBlock(lead.start_ms, trail.end_ms, trail.end_ms - lead.start_ms,
                    lead.segments \o block.segments \o trail.segments)

\* extend_block_boundaries_with_short_units
ExtendBlockBoundariesWithShortUnits(blocks, silence_segments) ==
    IF blocks = <<>> \/ silence_segments = <<>> THEN blocks
    ELSE [k \in 1..Len(blocks) |-> ExtendSingleBlockBoundaries(blocks[k], silence_segments)]

\* ----------------------------------------------------------- the filter
\* count_standard_units
CountStandardUnits(block) ==
    Cardinality({k \in 1..Len(block.segments) : block.segments[k].is_standard})

KeepBlockOneUnit(block) ==
    /\ block.duration_sec >= MIN_BLOCK_DURATION_SEC
    /\ CountStandardUnits(block) >= MIN_STANDARD_UNITS - 1

\* the predicate of filter_blocks_by_standard_units
KeepBlock(block) ==
    LET standard_count == CountStandardUnits(block)
        meets_duration == block.duration_sec >= MIN_BLOCK_DURATION_SEC
        meets_standard_units == standard_count >= MIN_STANDARD_UNITS
    IN meets_duration /\ meets_standard_units

\* filter_blocks_by_standard_units
FilterBlocksByStandardUnits(blocks) == SelectSeq(blocks, KeepBlock)

\* the blocks main() puts in the report
Pipeline(silence_segments) ==
    LET detected0 == DetectBlocksRangeBased(silence_segments)
        merged0 == MergeBlocksWithShortUnits(detected0, silence_segments)
        extended0 == ExtendBlockBoundariesWithShortUnits(merged0, silence_segments)
    IN FilterBlocksByStandardUnits(extended0)


\* --------------------------------------------------------------- inputs
\* An input is built from elements <<d, w>>: a silence of width w that starts
\* d ms after the end of the silence before it (after time 0 for the first),
\* so every input is time-ordered and, d being positive, pairwise disjoint.
RECURSIVE BuildSilences(_, _)
BuildSilences(elems, from_ms) ==
    IF elems = <<>> THEN <<>>
    ELSE LET start == from_ms + Head(elems)[1]
             end == start + Head(elems)[2]
         IN <<[start_ms |-> start, end_ms |-> end]>>
            \o BuildSilences(Tail(elems), end)

\* 1 s silences 75 s, 60 s and 6 s apart (centers): long blocks, flanking bumpers
FamilyLong == {<<74000, 1000>>, <<59000, 1000>>, <<5000, 1000>>}

\* 1 s silences 15 s, 90 s and 6 s apart: the scenarios of the repository's tests
FamilyGrid == {<<14000, 1000>>, <<89000, 1000>>, <<5000, 1000>>}

\* point silences at the tolerance and clamp boundaries, and 1 s silences
\* whose centers are 15500 ms and 15501 ms apart
FamilyPoint == {<<15500, 0>>, <<15501, 0>>, <<75500, 0>>, <<75501, 0>>,
                <<82500, 0>>, <<82499, 0>>, <<14500, 1000>>, <<14501, 1000>>}

\* short-unit hops between point and wide silences
FamilyShort == {<<15500, 0>>, <<5000, 1000>>, <<4900, 100>>, <<14900, 100>>}

\* point silences 30 s, 7 s and 23 s apart: a silence off every grid
FamilyInsert == {<<30000, 0>>, <<7000, 0>>, <<23000, 0>>}

\* a 1.8 s silence whose center is 15.5 s after that of a 3 ms silence (a
\* standard hop that tightens the range to the silence's first half), a 3 ms
\* silence 5.3 s after the center of a 1.8 s one, and a 2 s silence 5 s after
\* the end of the one before it
FamilyMerge == {<<14598, 1800>>, <<4400, 3>>, <<5000, 2000>>}

\* silences around the start-offset window [2000, 8000]: points 1999 ms, 1 ms
\* and 6002 ms after the silence before, a 2 ms silence 6 s on and a 200 ms
\* silence 1.9 s on
FamilyOffset == {<<1999, 0>>, <<1, 0>>, <<6000, 2>>, <<6002, 0>>, <<1900, 200>>}

InputsOf(family, max_len) ==
    {BuildSilences(es, 0) : es \in UNION {[1..n -> family] : n \in 0..max_len}}

Inputs ==
    InputsOf(FamilyLong, MaxLong) \cup InputsOf(FamilyGrid, MaxGrid)
    \cup InputsOf(FamilyPoint, MaxPoint) \cup InputsOf(FamilyShort, MaxShort)
    \cup InputsOf(FamilyInsert, MaxInsert) \cup InputsOf(FamilyMerge, MaxMerge)
    \cup InputsOf(FamilyOffset, MaxOffset)

\* ---------------------------------------------------------------- state
VARIABLES
    silence_segments,  \* main: the parsed silence list
    start_offset_ms,   \* main: the result of detect_start_offset_ms, <<>> for None
    pc,                \* where main() is
    i,                 \* detect_blocks_range_based: the loop index (1-based)
    chain_segments,    \* detect_blocks_range_based: the open chain
    prev_range,        \* detect_blocks_range_based: the feasible range
    last,              \* the locals of the last loop iteration, <<>> before it
    blocks,            \* detect_blocks_range_based: the blocks emitted so far
    merged_blocks,     \* main: blocks after merge_blocks_with_short_units
    extended_blocks,   \* main: blocks after extend_block_boundaries_with_short_units
    cm_blocks          \* main: blocks after the final filter (OutputJson.cm_blocks)

vars == <<silence_segments, start_offset_ms, pc, i, chain_segments, prev_range, last,
          blocks, merged_blocks, extended_blocks, cm_blocks>>

Init ==
    /\ silence_segments \in Inputs
    /\ start_offset_ms = <<>>
    /\ pc = "start_offset"
    /\ i = 0
    /\ chain_segments = <<>>
    /\ prev_range = Range(0, 0)
    /\ last = <<>>
    /\ blocks = <<>>
    /\ merged_blocks = <<>>
    /\ extended_blocks = <<>>
    /\ cm_blocks = <<>>

\* main: the call of detect_start_offset_ms
StartOffset ==
    /\ pc = "start_offset"
    /\ start_offset_ms' = DetectStartOffsetMs(silence_segments)
    /\ pc' = "detect"
    /\ UNCHANGED <<silence_segments, i, chain_segments, prev_range, last,
                   blocks, merged_blocks, extended_blocks, cm_blocks>>

\* detect_blocks_range_based on fewer than 2 silences: no blocks
DetectTooFew ==
    /\ pc = "detect"
    /\ Len(silence_segments) < 2
    /\ pc' = "merge"
    /\ UNCHANGED <<silence_segments, start_offset_ms, i, chain_segments, prev_range, last,
                   blocks, merged_blocks, extended_blocks, cm_blocks>>

\* detect_blocks_range_based: the state before the loop
DetectStart ==
    /\ pc = "detect"
    /\ Len(silence_segments) >= 2
    /\ LET st == ChainStart(silence_segments)
       IN /\ blocks' = st.blocks
          /\ chain_segments' = st.chain_segments
          /\ prev_range' = st.prev_range
    /\ i' = 2
    /\ pc' = "chain"
    /\ UNCHANGED <<silence_segments, start_offset_ms, last, merged_blocks, extended_blocks, cm_blocks>>

\* one iteration of the loop
LoopBody ==
    LET st == ChainStep([blocks |-> blocks, chain_segments |-> chain_segments,
                         prev_range |-> prev_range], silence_segments, i)
    IN /\ blocks' = st.blocks
       /\ chain_segments' = st.chain_segments
       /\ prev_range' = st.prev_range
       /\ last' = <<HopTest(prev_range, silence_segments[i])>>
       /\ i' = i + 1
       /\ UNCHANGED <<silence_segments, start_offset_ms, pc, merged_blocks, extended_blocks, cm_blocks>>

\* an iteration whose gap is beyond 5 units: the chain closes
ChainTooLong ==
    /\ pc = "chain"
    /\ i <= Len(silence_segments)
    /\ HopTest(prev_range, silence_segments[i]).expected_ms = NoUnits
    /\ LoopBody

\* an iteration whose hop is admitted: the chain continues
ChainContinue ==
    /\ pc = "chain"
    /\ i <= Len(silence_segments)
    /\ HopTest(prev_range, silence_segments[i]).expected_ms # NoUnits
    /\ HopTest(prev_range, silence_segments[i]).valid_range # NoRange
    /\ LoopBody

\* an iteration whose hop matches nothing: the chain closes
ChainBreak ==
    /\ pc = "chain"
    /\ i <= Len(silence_segments)
    /\ HopTest(prev_range, silence_segments[i]).expected_ms # NoUnits
    /\ HopTest(prev_range, silence_segments[i]).valid_range = NoRange
    /\ LoopBody

\* after the loop: the last chain is evaluated
ChainFinish ==
    /\ pc = "chain"
    /\ i > Len(silence_segments)
    /\ blocks' = blocks \o TryMakeBlockRangeBased(chain_segments, silence_segments)
    /\ chain_segments' = <<>>
    /\ pc' = "merge"
    /\ UNCHANGED <<silence_segments, start_offset_ms, i, prev_range, last,
                   merged_blocks, extended_blocks, cm_blocks>>

Merge ==
    /\ pc = "merge"
    /\ merged_blocks' = MergeBlocksWithShortUnits(blocks, silence_segments)
    /\ pc' = "extend"
    /\ UNCHANGED <<silence_segments, start_offset_ms, i, chain_segments, prev_range, last,
                   blocks, extended_blocks, cm_blocks>>

Extend ==
    /\ pc = "extend"
    /\ extended_blocks' = ExtendBlockBoundariesWithShortUnits(merged_blocks, silence_segments)
    /\ pc' = "filter"
    /\ UNCHANGED <<silence_segments, start_offset_ms, i, chain_segments, prev_range, last,
                   blocks, merged_blocks, cm_blocks>>

Filter ==
    /\ pc = "filter"
    /\ cm_blocks' = FilterBlocksByStandardUnits(extended_blocks)
    /\ pc' = "done"
    /\ UNCHANGED <<silence_segments, start_offset_ms, i, chain_segments, prev_range, last,
                   blocks, merged_blocks, extended_blocks>>

Next ==
    \/ StartOffset
    \/ DetectTooFew
    \/ DetectStart
    \/ ChainTooLong
    \/ ChainContinue
    \/ ChainBreak
    \/ ChainFinish
    \/ Merge
    \/ Extend
    \/ Filter

Spec == Init /\ [][Next]_vars


\* --------------------------------------------------------------- claims
\* the block lists the stages have produced so far
StageLists == <<blocks, merged_blocks, extended_blocks, cm_blocks>>

AllProducedBlocks ==
    UNION {{StageLists[n][k] : k \in 1..Len(StageLists[n])} : n \in 1..Len(StageLists)}

\* C1: every block produced by the chainer, the merger, the extender and the
\* filter has a non-empty segment list whose first segment starts at the
\* block's start_ms and whose last segment ends at the block's end_ms.
C1_SegmentsSpanBlock ==
    \A b \in AllProducedBlocks :
        /\ b.segments # <<>>
        /\ b.segments[1].start_ms = b.start_ms
        /\ b.segments[Len(b.segments)].end_ms = b.end_ms

\* C2 as stated: in every produced block adjacent segments touch
\* (segments[i].end_ms = segments[i+1].start_ms) and each segment has
\* start_ms <= end_ms.
C2_SegmentsContiguous ==
    \A b \in AllProducedBlocks :
        /\ \A k \in 1..(Len(b.segments) - 1) :
               b.segments[k].end_ms = b.segments[k + 1].start_ms
        /\ \A k \in 1..Len(b.segments) :
               b.segments[k].start_ms <= b.segments[k].end_ms

\* C2 as amended: in every produced block the segments are ordered and do not
\* overlap (segments[i].end_ms <= segments[i+1].start_ms: adjacent hops are
\* separated by the silence between them), each segment has
\* start_ms <= end_ms, and the segments lie inside the block's span.
C2_SegmentsOrdered ==
    \A b \in AllProducedBlocks :
        /\ \A k \in 1..(Len(b.segments) - 1) :
               b.segments[k].end_ms <= b.segments[k + 1].start_ms
        /\ \A k \in 1..Len(b.segments) :
               b.segments[k].start_ms <= b.segments[k].end_ms
        /\ b.segments # <<>>
        /\ b.start_ms <= b.segments[1].start_ms
        /\ b.segments[Len(b.segments)].end_ms <= b.end_ms

\* C2 witness: the final output holds a block that was merged from two chains
\* and extended, whose hops are separated by silences of positive width.
C2_Witness ==
    /\ pc = "done"
    /\ \E k \in 1..Len(cm_blocks) :
           LET b == cm_blocks[k]
           IN /\ Len(b.segments) >= 4
              /\ b.segments[1].start_ms = b.start_ms
              /\ \E j \in 1..(Len(b.segments) - 1) :
                     b.segments[j].end_ms < b.segments[j + 1].start_ms
              /\ \E j \in 1..Len(merged_blocks) :
                     Len(merged_blocks[j].segments) > Len(blocks[j].segments)

\* C3: every block of the final output has 60 <= duration_sec <= 360.
C3_FinalDurationBounds ==
    pc = "done" =>
        \A k \in 1..Len(cm_blocks) :
            /\ cm_blocks[k].duration_sec >= MIN_BLOCK_DURATION_SEC
            /\ cm_blocks[k].duration_sec <= MAX_BLOCK_DURATION_SEC

\* C4: the blocks of the final output are sorted by start_ms and do not
\* overlap: for consecutive blocks A, B, A.end_ms <= B.start_ms.  (Every input
\* of the model is time-ordered and pairwise disjoint.)
C4_FinalBlocksDisjoint ==
    pc = "done" =>
        \A k \in 1..(Len(cm_blocks) - 1) :
            /\ cm_blocks[k].start_ms <= cm_blocks[k + 1].start_ms
            /\ cm_blocks[k].end_ms <= cm_blocks[k + 1].start_ms

\* the indices of the blocks before the filter that meet both conditions
C5_KeptIndices ==
    {k \in 1..Len(extended_blocks) :
        /\ extended_blocks[k].duration_sec >= MIN_BLOCK_DURATION_SEC
        /\ Cardinality({j \in 1..Len(extended_blocks[k].segments) :
                           extended_blocks[k].segments[j].is_standard})
           >= MIN_STANDARD_UNITS}

\* C5: the final filter keeps exactly the blocks with duration_sec >= 60 and
\* at least 2 segments with is_standard, in their order and unchanged: the
\* j-th output block is the j-th block before the filter that meets both.
C5_FilterKeepsExactly ==
    pc = "done" =>
        /\ Len(cm_blocks) = Cardinality(C5_KeptIndices)
        /\ \A j \in 1..Len(cm_blocks) :
               \E k \in C5_KeptIndices :
                   /\ Cardinality({m \in C5_KeptIndices : m <= k}) = j
                   /\ cm_blocks[j] = extended_blocks[k]

\* C5 witness: the filter has kept one block and dropped another, which was
\* long enough but had a single strict-standard hop.
C5_Witness ==
    /\ pc = "done"
    /\ Len(cm_blocks) >= 1
    /\ \E k \in 1..Len(extended_blocks) :
           /\ k \notin C5_KeptIndices
           /\ extended_blocks[k].duration_sec >= MIN_BLOCK_DURATION_SEC

\* the distances a hop of the given kind may span, before tolerance
HopOffsets(is_standard) ==
    IF is_standard THEN {n * STANDARD_UNIT_SEC : n \in 1..MAX_STANDARD_UNITS}
    ELSE {SHORT_UNITS[k] : k \in 1..Len(SHORT_UNITS)}

\* the points of range r that lie within TOLERANCE_MS of p + o for a point p
\* of a range of F and a distance o of offs, as a set of ranges
PointsAfter(F, offs, r) ==
    {x \in {Range(Max2(f.start + o - TOLERANCE_MS, r.start),
                  Min2(f.end + o + TOLERANCE_MS, r.end)) : f \in F, o \in offs} :
        x.start <= x.end}

\* the boundary points the last silence of hops 1..k of a chain can take in an
\* exact boundary sequence over the silences of those hops
RECURSIVE FeasiblePoints(_, _, _)
FeasiblePoints(chain, silences, k) ==
    IF k = 0 THEN {SilenceRange(silences[chain[1].from])}
    ELSE PointsAfter(FeasiblePoints(chain, silences, k - 1),
                     HopOffsets(chain[k].is_standard),
                     SilenceRange(silences[chain[k].to]))

\* C6: every chain the chainer has accepted admits a sequence of exact
\* boundary points, one inside each silence of the chain, whose consecutive
\* differences are within 500 ms of k * 15000 (k in 1..5) on a standard hop
\* and within 500 ms of 5000 or 10000 on a short-unit hop.
C6_RangeTighteningSound ==
    (pc = "chain" /\ chain_segments # <<>>) =>
        FeasiblePoints(chain_segments, silence_segments, Len(chain_segments)) # {}

\* the input without its k-th silence
WithoutSilence(silences, k) ==
    [n \in 1..(Len(silences) - 1) |-> IF n < k THEN silences[n] ELSE silences[n + 1]]

\* whether the chainer admits the hop into silence k (by either test)
HopAdmitted(silences, k) ==
    /\ k >= 2
    /\ k <= Len(silences)
    /\ HopTest(ChainLoop(silences, k - 1).prev_range, silences[k]).valid_range # NoRange

\* whether point ms lies in the span of a block of the list
PointCovered(ms, out) ==
    \E n \in 1..Len(out) : out[n].start_ms <= ms /\ ms <= out[n].end_ms

\* C7: if the k-th silence of the input satisfies neither grid test where it
\* stands (the hop into it and the hop out of it are both refused), then every
\* block of the final output for the input without it is still covered by
\* the final output for the input with it.
C7_InsertionMonotone ==
    pc = "done" =>
        \A k \in 1..Len(silence_segments) :
            (/\ ~HopAdmitted(silence_segments, k)
             /\ ~HopAdmitted(silence_segments, k + 1))
            => LET original == Pipeline(WithoutSilence(silence_segments, k))
               IN \A n \in 1..Len(original) :
                      /\ PointCovered(original[n].start_ms, cm_blocks)
                      /\ PointCovered(original[n].end_ms, cm_blocks)

C9_ClampClosesChain ==
    [][(pc = "chain" /\ i <= Len(silence_segments)) =>
          LET gap_ms == Center(silence_segments[i]) - RangeCenter(prev_range)
              t == last'[1]
              beyond == 2 * gap_ms >= (2 * MAX_STANDARD_UNITS + 1) * STANDARD_UNIT_SEC
          IN /\ t.gap_ms = gap_ms
             /\ (t.units = NoUnits) <=> beyond
             /\ (~beyond /\ gap_ms >= 0) =>
                    /\ t.units \in 1..MAX_STANDARD_UNITS
                    /\ 2 * gap_ms < (2 * t.units + 1) * STANDARD_UNIT_SEC
                    /\ (t.units > 1 => 2 * gap_ms >= (2 * t.units - 1) * STANDARD_UNIT_SEC)
             /\ beyond =>
                    /\ t.valid_range = NoRange
                    /\ chain_segments' = <<>>
                    /\ prev_range' = SilenceRange(silence_segments[i])
                    /\ Len(blocks') = Len(blocks)
                           + (IF /\ chain_segments # <<>>
                                 /\ Center(silence_segments[i - 1])
                                        - Center(silence_segments[chain_segments[1].from])
                                    \in 1..MAX_BLOCK_DURATION_SEC
                              THEN 1 ELSE 0)
                    /\ \A n \in 1..Len(blocks) : blocks'[n] = blocks[n]
                    /\ Len(blocks') > Len(blocks) =>
                           /\ blocks'[Len(blocks')].start_ms
                                  = Center(silence_segments[chain_segments[1].from])
                           /\ blocks'[Len(blocks')].end_ms
                                  = Center(silence_segments[i - 1])
                           /\ Len(blocks'[Len(blocks')].segments) = Len(chain_segments)
      ]_vars

\* C9 witness: a hop of exactly 82500 ms between point silences has just
\* closed a chain and emitted its block.
C9_Witness ==
    /\ pc = "chain"
    /\ last # <<>>
    /\ last[1].gap_ms = 82500
    /\ last[1].units = NoUnits
    /\ chain_segments = <<>>
    /\ prev_range = SilenceRange(silence_segments[i - 1])
    /\ blocks # <<>>
    /\ blocks[Len(blocks)].end_ms = Center(silence_segments[i - 2])

\* whether the input is two runs on the 15 s grid around a middle silence m:
\* silences of one width, 15 s apart (centers) except for the 90 s between
\* silence m - 1 and silence m; each run has at least two silences
TwoRunsAround(silences, m) ==
    /\ m >= 3
    /\ m + 2 <= Len(silences)
    /\ \A k \in 1..Len(silences) :
           silences[k].end_ms - silences[k].start_ms
               = silences[1].end_ms - silences[1].start_ms
    /\ \A k \in 2..Len(silences) :
           Center(silences[k]) - Center(silences[k - 1])
               = IF k = m THEN 6 * STANDARD_UNIT_SEC ELSE STANDARD_UNIT_SEC
    /\ Center(silences[m - 1]) - Center(silences[1]) <= MAX_BLOCK_DURATION_SEC
    /\ Center(silences[Len(silences)]) - Center(silences[m]) <= MAX_BLOCK_DURATION_SEC

GridTestPasses(prev, curr) ==
    LET n == CoarseUnitCount(Center(curr) - RangeCenter(prev))
    IN /\ n # NoUnits
       /\ Max2(curr.start_ms, prev.start + n * STANDARD_UNIT_SEC - TOLERANCE_MS)
              <= Min2(curr.end_ms, prev.end + n * STANDARD_UNIT_SEC + TOLERANCE_MS)

\* the segments of a block list, block after block
RECURSIVE AllSegments(_)
AllSegments(list) ==
    IF list = <<>> THEN <<>> ELSE Head(list).segments \o AllSegments(Tail(list))

SegmentIsStandard(seg) == seg.is_standard

StandardCount(segments) == Len(SelectSeq(segments, SegmentIsStandard))

\* whether segment list ext is segment list base with only non-standard
\* segments put before and after it
OnlyNonStandardAdded(ext, base) ==
    \E a \in 0..(Len(ext) - Len(base)) :
        /\ SubSeq(ext, a + 1, a + Len(base)) = base
        /\ \A k \in 1..Len(ext) :
               (k <= a \/ k > a + Len(base)) => ~ext[k].is_standard

\* C11: a hop's is_standard flag is true exactly when the chainer admitted it
\* through the 15 s-grid test (a hop that passes the grid test is admitted and
\* flagged, an admitted hop that fails it is not flagged), and the flag is
\* copied to the block's segment; the merger keeps the standard segments as
\* they are and adds one non-standard segment per join; the extender adds only
\* non-standard segments around a block's own: neither changes a strict-
\* standard count.
C11_IsStandardFlag ==
    [][/\ (pc = "chain" /\ i <= Len(silence_segments)) =>
              LET grid == GridTestPasses(prev_range, silence_segments[i])
                  admitted == Len(chain_segments') = Len(chain_segments) + 1
              IN /\ grid => admitted
                 /\ admitted =>
                        chain_segments'[Len(chain_segments')].is_standard = grid
       /\ (pc = "chain" /\ Len(blocks') > Len(blocks)) =>
              LET b == blocks'[Len(blocks')]
              IN /\ Len(b.segments) = Len(chain_segments)
                 /\ \A k \in 1..Len(chain_segments) :
                        b.segments[k].is_standard = chain_segments[k].is_standard
       /\ pc = "merge" =>
              /\ SelectSeq(AllSegments(merged_blocks'), SegmentIsStandard)
                     = SelectSeq(AllSegments(blocks), SegmentIsStandard)
              /\ Len(AllSegments(merged_blocks'))
                     = Len(AllSegments(blocks)) + Len(blocks) - Len(merged_blocks')
       /\ pc = "extend" =>
              /\ Len(extended_blocks') = Len(merged_blocks)
              /\ \A k \in 1..Len(merged_blocks) :
                     /\ OnlyNonStandardAdded(extended_blocks'[k].segments,
                                             merged_blocks[k].segments)
                     /\ StandardCount(extended_blocks'[k].segments)
                            = StandardCount(merged_blocks[k].segments)
      ]_vars

\* C11 witness: the chainer admitted a hop through the short-unit fallback
\* next to standard hops, the merger joined two blocks and the extender
\* lengthened a block.
C11_Witness ==
    /\ pc = "done"
    /\ \E k \in 1..Len(blocks) :
           /\ \E j \in 1..Len(blocks[k].segments) : ~blocks[k].segments[j].is_standard
           /\ \E j \in 1..Len(blocks[k].segments) : blocks[k].segments[j].is_standard
    /\ Len(merged_blocks) < Len(blocks)
    /\ \E k \in 1..Len(merged_blocks) :
           Len(extended_blocks[k].segments) > Len(merged_blocks[k].segments)

\* C12: every block the chainer returns was made of a chain of hops over
\* consecutive silences first..last; its start_ms is
\* (first.start_ms + first.end_ms) / 2 and its end_ms is
\* (last.start_ms + last.end_ms) / 2, by integer division; it has exactly
\* last - first segments, the k-th being the hop between silences
\* first + k - 1 and first + k.
C12_BlockEndpoints ==
    [][(pc = "chain" /\ Len(blocks') > Len(blocks)) =>
          LET b == blocks'[Len(blocks')]
              first == chain_segments[1].from
              last_idx == chain_segments[Len(chain_segments)].to
          IN /\ Len(blocks') = Len(blocks) + 1
             /\ chain_segments # <<>>
             /\ last_idx = i - 1
             /\ \A k \in 1..Len(chain_segments) :
                    /\ chain_segments[k].from = first + k - 1
                    /\ chain_segments[k].to = first + k
             /\ b.start_ms = (silence_segments[first].start_ms
                              + silence_segments[first].end_ms) \div 2
             /\ b.end_ms = (silence_segments[last_idx].start_ms
                            + silence_segments[last_idx].end_ms) \div 2
             /\ Len(b.segments) = last_idx - first
             /\ \A k \in 1..Len(b.segments) :
                    /\ b.segments[k].start_ms = silence_segments[first + k - 1].end_ms
                    /\ b.segments[k].end_ms = silence_segments[first + k].start_ms
      ]_vars

\* C12 witness: the chainer has returned a block of at least two hops whose
\* first silence has an odd start_ms + end_ms, so that the division truncates,
\* and whose silences are wider than a point.
C12_Witness ==
    /\ pc = "merge"
    /\ \E n \in 1..Len(blocks) : \E k \in 1..Len(silence_segments) :
           /\ Len(blocks[n].segments) >= 2
           /\ (silence_segments[k].start_ms + silence_segments[k].end_ms) % 2 = 1
           /\ blocks[n].start_ms = Center(silence_segments[k])
           /\ blocks[n].start_ms < blocks[n].segments[1].start_ms

\* C13: at every chainer step where the grid multiple exists (coarse_units
\* <= 5), the standard match is empty and the gap between the centers of the
\* previous and the current silence is within 500 ms of 5000 or of 10000, the
\* hop is admitted with is_standard = FALSE and the chain continues.
C13_ShortHopContinues ==
    (pc = "chain" /\ last # <<>>) =>
        LET prev == silence_segments[i - 2]
            curr == silence_segments[i - 1]
            gap == Center(curr) - Center(prev)
        IN (/\ CoarseUnitCount(gap) # NoUnits
            /\ last[1].standard_match = NoRange
            /\ IsShortUnit(gap))
           => /\ chain_segments # <<>>
              /\ chain_segments[Len(chain_segments)]
                     = [from |-> i - 2, to |-> i - 1, is_standard |-> FALSE]

\* whether the edge-to-edge gap between silences k and k + 1 is a short unit
EdgeGapShort(silences, k) ==
    LET gap == silences[k + 1].start_ms - silences[k].end_ms
    IN Abs(gap - 5000) <= TOLERANCE_MS \/ Abs(gap - 10000) <= TOLERANCE_MS

\* how many silences before silence idx are reached over short edge gaps
LeadingReach(silences, idx) ==
    CHOOSE n \in 0..(idx - 1) :
        /\ \A j \in 1..n : EdgeGapShort(silences, idx - j)
        /\ (n < idx - 1 => ~EdgeGapShort(silences, idx - n - 1))

\* how many silences after silence idx are reached over short edge gaps
TrailingReach(silences, idx) ==
    CHOOSE n \in 0..(Len(silences) - idx) :
        /\ \A j \in 1..n : EdgeGapShort(silences, idx + j - 1)
        /\ (n < Len(silences) - idx => ~EdgeGapShort(silences, idx + n))

\* the first silence whose center is ms
SilenceAt(silences, ms) ==
    CHOOSE k \in 1..Len(silences) :
        /\ Center(silences[k]) = ms
        /\ \A j \in 1..(k - 1) : Center(silences[j]) # ms

\* the non-standard hop between the centers of silences k and k + 1
CenterHop(silences, k) ==
    [start_ms |-> Center(silences[k]), end_ms |-> Center(silences[k + 1]),
     duration_sec |-> Center(silences[k + 1]) - Center(silences[k]),
     is_standard |-> FALSE]

\* C14: the extender starts from the silence whose center is the block's
\* start_ms and moves to the preceding silence as long as one exists and the
\* edge-to-edge gap curr.start_ms - prev.end_ms is within 500 ms of 5000 or
\* 10000, prepending each time a non-standard hop from center(prev) to
\* center(curr) and moving start_ms to center(prev); it stops at the first gap
\* that is not a short unit; the trailing edge is extended the same way
\* forward; the block's own segments stay in between.
C14_BoundaryExtension ==
    pc \in {"filter", "done"} =>
        /\ Len(extended_blocks) = Len(merged_blocks)
        /\ \A n \in 1..Len(merged_blocks) :
               LET b == merged_blocks[n]
                   e == extended_blocks[n]
                   s_idx == SilenceAt(silence_segments, b.start_ms)
                   e_idx == SilenceAt(silence_segments, b.end_ms)
                   lead == LeadingReach(silence_segments, s_idx)
                   trail == TrailingReach(silence_segments, e_idx)
               IN /\ e.start_ms = Center(silence_segments[s_idx - lead])
                  /\ e.end_ms = Center(silence_segments[e_idx + trail])
                  /\ e.segments
                         = [j \in 1..lead |->
                               CenterHop(silence_segments, s_idx - lead + j - 1)]
                           \o b.segments
                           \o [j \in 1..trail |->
                                  CenterHop(silence_segments, e_idx + j - 1)]

\* C14 witness: a block was extended on both edges over flanking silences the
\* chainer had refused (center-to-center gap 6000 ms, edge-to-edge 5000 ms),
\* two of them on the leading edge, and the extension stopped at a silence
\* whose gap is not a short unit.
C14_Witness ==
    /\ pc = "done"
    /\ \E n \in 1..Len(merged_blocks) :
           LET b == merged_blocks[n]
               e == extended_blocks[n]
               s_idx == SilenceAt(silence_segments, b.start_ms)
           IN /\ Len(e.segments) >= Len(b.segments) + 3
              /\ e.segments[1].end_ms - e.segments[1].start_ms = 6000
              /\ e.segments[2].end_ms = b.start_ms
              /\ e.end_ms > b.end_ms
              /\ e.end_ms - b.end_ms = 6000
              /\ \E k \in 1..Len(blocks) : blocks[k].start_ms = b.start_ms
              /\ Center(silence_segments[1]) < e.start_ms

\* whether the f64 product (ms as f64 / 1000.0) * 1000.0 is ms again.  The
\* exact product is ms + DivThousandError(ms) * 2^-s; it rounds back to ms
\* exactly when that error is at most half the spacing of the f64 values
\* next to ms (a tie goes to ms, whose significand is even).
TimesThousandGivesBack(ms) ==
    IF ms = 0 THEN TRUE
    ELSE LET d == Abs(ms)
             kd == FloorLog2(d)
             err == DivThousandError(d)
         IN IF kd - QuotientExponent(d) = 10
            THEN (d = 2^kd) => err >= -256
            ELSE Abs(err) <= 256

\* C15 as stated: for every block produced by any stage, duration_sec is the
\* duration of the block's own endpoints and duration_sec * 1000 equals
\* end_ms - start_ms exactly.
C15_DurationTimesThousand ==
    \A b \in AllProducedBlocks :
        /\ b.duration_sec = b.end_ms - b.start_ms
        /\ TimesThousandGivesBack(b.duration_sec)

\* whether 1000 * 2^k <= ms < 1024 * 2^k for some k >= 0
InLossyBand(ms) ==
    \E k \in 0..FloorLog2(Abs(ms) + 1) : 1000 * 2^k <= Abs(ms) /\ Abs(ms) < 1024 * 2^k

\* C15 as amended: for every block produced by any stage, duration_sec is
\* (end_ms - start_ms) as f64 / 1000.0 of the block's own endpoints (merging
\* and extending recompute it from the new endpoints), and the f64 product
\* duration_sec * 1000 equals end_ms - start_ms whenever end_ms - start_ms is
\* in no band [1000 * 2^k, 1024 * 2^k).
C15_DurationFromEndpoints ==
    \A b \in AllProducedBlocks :
        /\ b.duration_sec = b.end_ms - b.start_ms
        /\ ~InLossyBand(b.duration_sec) => TimesThousandGivesBack(b.duration_sec)

\* C15 witness: the merger and the extender have both lengthened a block and
\* recomputed its duration; one produced block has a duration whose product
\* with 1000 is not the span again, another one whose product is.
C15_Witness ==
    /\ pc = "done"
    /\ \E n \in 1..Len(merged_blocks) :
           /\ merged_blocks[n].duration_sec > blocks[n].duration_sec
           /\ extended_blocks[n].duration_sec > merged_blocks[n].duration_sec
    /\ \E b \in AllProducedBlocks : ~TimesThousandGivesBack(b.end_ms - b.start_ms)
    /\ \E b \in AllProducedBlocks :
           /\ TimesThousandGivesBack(b.end_ms - b.start_ms)
           /\ (b.end_ms - b.start_ms) % 125 # 0

\* whether the center of the k-th silence lies in the window [2000, 8000]
CenterInWindow(silences, k) ==
    LET center == (silences[k].start_ms + silences[k].end_ms) \div 2
    IN 2000 <= center /\ center <= 8000

\* C16: the start-offset detector returns the center (start_ms + end_ms) / 2
\* of the first silence, in input order, whose center lies in the inclusive
\* window [2000, 8000], skipping earlier silences whose center is outside it,
\* and none if no silence has its center in the window; the blocks of the
\* report are those of the pipeline on the silences alone.
C16_StartOffset ==
    pc # "start_offset" =>
        /\ (\A k \in 1..Len(silence_segments) : ~CenterInWindow(silence_segments, k))
               => start_offset_ms = <<>>
        /\ \A k \in 1..Len(silence_segments) :
               (/\ CenterInWindow(silence_segments, k)
                /\ \A j \in 1..(k - 1) : ~CenterInWindow(silence_segments, j))
               => start_offset_ms = <<(silence_segments[k].start_ms
                                       + silence_segments[k].end_ms) \div 2>>
        /\ pc = "done" => cm_blocks = Pipeline(silence_segments)

\* C16 witness: the detector skipped a silence centered at 1999 and returned
\* 8000, the center of the 2 ms silence after it, on the window's upper edge.
C16_Witness ==
    /\ pc = "done"
    /\ Len(silence_segments) >= 2
    /\ Center(silence_segments[1]) = 1999
    /\ silence_segments[2].start_ms < silence_segments[2].end_ms
    /\ start_offset_ms = <<8000>>

\* whether blocks k and k + 1 of the chainer are inside one block of the merger
JoinedByMerger(k) ==
    \E m \in 1..Len(merged_blocks) :
        /\ merged_blocks[m].start_ms <= blocks[k].start_ms
        /\ blocks[k + 1].end_ms <= merged_blocks[m].end_ms

\* whether gap is within n * 500 ms of n * 5000 or of n * 10000
ShortUnitsFit(gap, n) ==
    \/ Abs(gap - n * 5000) <= n * 500
    \/ Abs(gap - n * 10000) <= n * 500

\* C17: two adjacent provisional blocks are merged iff, with
\* gap = next.start_ms - current.end_ms, either no silence lies entirely
\* inside [current.end_ms, next.start_ms] and the gap is within 500 ms of 5000
\* or 10000, or at least one does and the gap is within n * 500 ms of
\* n * 5000 or n * 10000 for some n in 1..6; the silence that ends the
\* current block and the one that starts the next block are not counted.
C17_MergeCriterion ==
    pc \in {"extend", "filter", "done"} =>
        \A k \in 1..(Len(blocks) - 1) :
            LET gap_start == blocks[k].end_ms
                gap_end == blocks[k + 1].start_ms
                gap == gap_end - gap_start
                ending == SilenceAt(silence_segments, gap_start)
                starting == SilenceAt(silence_segments, gap_end)
                inside == {j \in 1..Len(silence_segments) :
                              /\ j # ending
                              /\ j # starting
                              /\ gap_start <= silence_segments[j].start_ms
                              /\ silence_segments[j].end_ms <= gap_end}
            IN JoinedByMerger(k)
               <=> \/ inside = {} /\ ShortUnitsFit(gap, 1)
                   \/ inside # {} /\ \E n \in 1..6 : ShortUnitsFit(gap, n)

\* the silences that lie entirely inside the closed gap between blocks k and
\* k + 1 of the chainer
SilencesInGap(k) ==
    {j \in 1..Len(silence_segments) :
        /\ blocks[k].end_ms <= silence_segments[j].start_ms
        /\ silence_segments[j].end_ms <= blocks[k + 1].start_ms}

\* whether the gap between blocks k and k + 1 of the chainer passes the
\* merger's test
GapPasses(k) ==
    LET gap == blocks[k + 1].start_ms - blocks[k].end_ms
    IN IF SilencesInGap(k) = {} THEN ShortUnitsFit(gap, 1)
       ELSE \E n \in 1..6 : ShortUnitsFit(gap, n)

\* whether blocks a..b of the chainer are a maximal run of passing gaps
IsRun(a, b) ==
    /\ 1 <= a
    /\ a <= b
    /\ b <= Len(blocks)
    /\ \A k \in a..(b - 1) : GapPasses(k)
    /\ (a > 1 => ~GapPasses(a - 1))
    /\ (b < Len(blocks) => ~GapPasses(b))

\* the segment lists of blocks a..b joined by one non-standard hop per gap
RECURSIVE RunSegments(_, _)
RunSegments(a, b) ==
    IF a = b THEN blocks[a].segments
    ELSE RunSegments(a, b - 1)
         \o <<[start_ms |-> blocks[b - 1].end_ms, end_ms |-> blocks[b].start_ms,
               duration_sec |-> blocks[b].start_ms - blocks[b - 1].end_ms,
               is_standard |-> FALSE]>>
         \o blocks[b].segments

\* C18: the merger's output blocks are, in order, the maximal runs of
\* consecutive input blocks whose gaps pass the test, the gap being taken
\* between the end of the merged block so far and the next input block; each
\* output block has the start_ms of its run's first block, the end_ms of its
\* last block, and the run's segment lists with exactly one non-standard hop
\* [current.end_ms, next.start_ms] at each join; fewer than 2 blocks are
\* returned unchanged.
C18_GreedyMerge ==
    pc \in {"extend", "filter", "done"} =>
        /\ Len(blocks) < 2 => merged_blocks = blocks
        /\ Len(merged_blocks)
               = Cardinality({a \in 1..Len(blocks) : a = 1 \/ ~GapPasses(a - 1)})
        /\ \A a \in 1..Len(blocks) : \A b \in a..Len(blocks) :
               IsRun(a, b) =>
                   LET m == 1 + Cardinality({k \in 1..(a - 1) : ~GapPasses(k)})
                       out == merged_blocks[m]
                   IN /\ out.start_ms = blocks[a].start_ms
                      /\ out.end_ms = blocks[b].end_ms
                      /\ out.segments = RunSegments(a, b)

\* C18 witness: the merger joined a run of three blocks into one, with two
\* inserted hops.
C18_Witness ==
    /\ pc = "done"
    /\ \E a \in 1..Len(blocks) :
           /\ IsRun(a, a + 2)
           /\ \E m \in 1..Len(merged_blocks) :
                  Len(merged_blocks[m].segments)
                      = Len(blocks[a].segments) + Len(blocks[a + 1].segments)
                        + Len(blocks[a + 2].segments) + 2

\* C19: at every chainer step the gap that chooses the grid multiple and runs
\* the short-unit test is center(current silence) - center(previous silence),
\* the previous silence's center being the midpoint of its original
\* [start_ms, end_ms], however far prev_range has been tightened.
C19_GapFromSilenceCenters ==
    (pc = "chain" /\ last # <<>>) =>
        LET gap == Center(silence_segments[i - 1]) - Center(silence_segments[i - 2])
        IN /\ last[1].gap_ms = gap
           /\ last[1].units = CoarseUnitCount(gap)

\* C20: every block the chainer returns has 0 < end_ms - start_ms <= 360000;
\* when a chain is closed, in the loop or after it, a chain whose span between
\* the centers of its first and last silence is in that range adds exactly one
\* block of that span, a chain whose span is outside it adds no block at all
\* (nothing shorter is emitted in its place) and an empty chain adds none; an
\* input of fewer than 2 silences yields no blocks.
C20_ChainCloseGuard ==
    [][/\ \A n \in 1..Len(blocks') :
              /\ 0 < blocks'[n].end_ms - blocks'[n].start_ms
              /\ blocks'[n].end_ms - blocks'[n].start_ms <= 360000
       /\ (pc = "chain" /\ chain_segments' = <<>>) =>
              IF chain_segments = <<>> THEN blocks' = blocks
              ELSE LET first == silence_segments[chain_segments[1].from]
                       final == silence_segments[chain_segments[Len(chain_segments)].to]
                       span == (final.start_ms + final.end_ms) \div 2
                               - (first.start_ms + first.end_ms) \div 2
                   IN IF 0 < span /\ span <= 360000
                      THEN /\ Len(blocks') = Len(blocks) + 1
                           /\ SubSeq(blocks', 1, Len(blocks)) = blocks
                           /\ blocks'[Len(blocks')].end_ms
                                  - blocks'[Len(blocks')].start_ms = span
                           /\ Len(blocks'[Len(blocks')].segments) = Len(chain_segments)
                      ELSE blocks' = blocks
       /\ Len(silence_segments) < 2 => blocks' = <<>>
      ]_vars

\* C20 witness: the chainer has finished on seven silences 75 s apart, a chain
\* of 450 s, and has returned no block.
C20_Witness ==
    /\ pc = "merge"
    /\ Len(silence_segments) = 7
    /\ \A k \in 2..Len(silence_segments) :
           Center(silence_segments[k]) - Center(silence_segments[k - 1]) = 75000
    /\ blocks = <<>>

\* the range a hop of expected interval e reaches from range r: r moved by
\* e - TOLERANCE_MS at its start and by e + TOLERANCE_MS at its end
ReachedFrom(r, e) == Range(r.start + e - TOLERANCE_MS, r.end + e + TOLERANCE_MS)

\* range a lies inside range b
RangeWithin(a, b) == b.start <= a.start /\ a.end <= b.end

\* the overlap of the silence's range with what the hop of the last iteration
\* reaches from the range it started with: the standard interval when that
\* overlap exists, the measured gap otherwise
MatchedIntersection(silence, hop) ==
    LET full == SilenceRange(silence)
        by_standard == ReachedFrom(hop.prev_range, hop.expected_ms)
        by_gap == ReachedFrom(hop.prev_range, hop.gap_ms)
        target == IF Max2(full.start, by_standard.start) <= Min2(full.end, by_standard.end)
                  THEN by_standard ELSE by_gap
    IN Range(Max2(full.start, target.start), Min2(full.end, target.end))

\* C21: the input silences have start_ms <= end_ms, and at the start of every
\* iteration of the chainer's loop (and when the loop is left) prev_range is
\* non-empty and lies inside the original range of the previous silence; with
\* an empty chain (the previous silence is a chain seed) it is that full
\* range, with a non-empty chain it is the matched intersection of the hop
\* just accepted; and the open chain is a run of hops (k, k + 1) over
\* consecutive indices whose last hop ends at the previous silence.
C21_ChainerStateInvariant ==
    /\ \A k \in 1..Len(silence_segments) :
           silence_segments[k].start_ms <= silence_segments[k].end_ms
    /\ pc = "chain" =>
           LET previous == silence_segments[i - 1]
               n == Len(chain_segments)
           IN /\ prev_range.start <= prev_range.end
              /\ RangeWithin(prev_range, SilenceRange(previous))
              /\ n = 0 => prev_range = SilenceRange(previous)
              /\ n > 0 => /\ last # <<>>
                          /\ last[1].curr_range = SilenceRange(previous)
                          /\ prev_range = MatchedIntersection(previous, last[1])
              /\ \A m \in 1..n :
                     /\ chain_segments[m].to = chain_segments[m].from + 1
                     /\ chain_segments[m].to = i - 1 - (n - m)

\* C21 witness: the loop is at the start of an iteration with an open chain of
\* at least two hops that was seeded by a silence other than the first, after
\* the loop had reset the chain, and prev_range has been tightened to a strict
\* part of the previous silence, of more than one point.
C21_Witness ==
    /\ pc = "chain"
    /\ i <= Len(silence_segments)
    /\ Len(chain_segments) >= 2
    /\ chain_segments[1].from > 1
    /\ prev_range # SilenceRange(silence_segments[i - 1])
    /\ prev_range.start < prev_range.end

=============================================================================
